---- MODULE Spec2Model ----
(***************************************************************************)
(* BiogeneStock.py: header normalisation (clean_column_name), canonical    *)
(* column resolution (safe_get_column), the mapping construction and       *)
(* user-override loops, and the report pipeline that consumes the mapping. *)
(*                                                                         *)
(* A Python value used as a column label is a record [kind, val]:          *)
(*   kind "str"  - val is the string; Spelling gives its characters        *)
(*   kind "int"  - val is the number (a numeric header cell)               *)
(*   kind "none" - Python's None                                           *)
(***************************************************************************)
EXTENDS Integers, Sequences, FiniteSets, TLC

VARIABLES
    cols,        \* df_raw.columns: the table's headers, in table order
    catalog,     \* resolver run: the canonical fields, sequence of [canon, aliases]
    loop_idx,    \* resolver run: position of the mapping construction loop
    found,       \* value returned by the last safe_get_column call
    mapping,     \* mapping: ordered dict, sequence of [k, v]
    dfcols,      \* df.columns of the working dataframe (a set of labels)
    amount_src,  \* where df["amount"] was taken from: a label, or Zero
    dtd_src,     \* what delivery_time_days was computed from
    dtd_notna,   \* fdf["delivery_time_days"].notna().any()
    infos,       \* st.info messages shown so far
    pc           \* position of the script run

vars == <<cols, catalog, loop_idx, found, mapping, dfcols, amount_src,
          dtd_src, dtd_notna, infos, pc>>

-----------------------------------------------------------------------------
(* Python values *)

S(s) == [kind |-> "str", val |-> s]
I(n) == [kind |-> "int", val |-> n]
None == [kind |-> "none", val |-> 0]

Digit(d) == <<"0", "1", "2", "3", "4", "5", "6", "7", "8", "9">>[d + 1]

RECURSIVE Digits(_)
Digits(n) == IF n < 10 THEN <<Digit(n)>> ELSE Digits(n \div 10) \o <<Digit(n % 10)>>

\* the characters of every string the model handles
Spelling ==
    "" :> <<>> @@
    "invoice_date" :> <<"i", "n", "v", "o", "i", "c", "e", "_", "d", "a", "t", "e">> @@
    "invoice date" :> <<"i", "n", "v", "o", "i", "c", "e", " ", "d", "a", "t", "e">> @@
    "goods_recd_date" :> <<"g", "o", "o", "d", "s", "_", "r", "e", "c", "d", "_", "d", "a", "t", "e">> @@
    "goods recd date" :> <<"g", "o", "o", "d", "s", " ", "r", "e", "c", "d", " ", "d", "a", "t", "e">> @@
    "goods_received_date" :> <<"g", "o", "o", "d", "s", "_", "r", "e", "c", "e", "i", "v", "e", "d", "_", "d", "a", "t", "e">> @@
    "dispatch_date" :> <<"d", "i", "s", "p", "a", "t", "c", "h", "_", "d", "a", "t", "e">> @@
    "dispatch date" :> <<"d", "i", "s", "p", "a", "t", "c", "h", " ", "d", "a", "t", "e">> @@
    "delivery_date" :> <<"d", "e", "l", "i", "v", "e", "r", "y", "_", "d", "a", "t", "e">> @@
    "delivery date" :> <<"d", "e", "l", "i", "v", "e", "r", "y", " ", "d", "a", "t", "e">> @@
    "unit_price_dollar_inr" :> <<"u", "n", "i", "t", "_", "p", "r", "i", "c", "e", "_", "d", "o", "l", "l", "a", "r", "_", "i", "n", "r">> @@
    "unit price dollar/inr" :> <<"u", "n", "i", "t", " ", "p", "r", "i", "c", "e", " ", "d", "o", "l", "l", "a", "r", "/", "i", "n", "r">> @@
    "unit_price_inr" :> <<"u", "n", "i", "t", "_", "p", "r", "i", "c", "e", "_", "i", "n", "r">> @@
    "unit price inr" :> <<"u", "n", "i", "t", " ", "p", "r", "i", "c", "e", " ", "i", "n", "r">> @@
    "purchase_value" :> <<"p", "u", "r", "c", "h", "a", "s", "e", "_", "v", "a", "l", "u", "e">> @@
    "purchase value" :> <<"p", "u", "r", "c", "h", "a", "s", "e", " ", "v", "a", "l", "u", "e">> @@
    "purchase_value_dollar/inr" :> <<"p", "u", "r", "c", "h", "a", "s", "e", "_", "v", "a", "l", "u", "e", "_", "d", "o", "l", "l", "a", "r", "/", "i", "n", "r">> @@
    "taxable_value" :> <<"t", "a", "x", "a", "b", "l", "e", "_", "v", "a", "l", "u", "e">> @@
    "taxable value" :> <<"t", "a", "x", "a", "b", "l", "e", " ", "v", "a", "l", "u", "e">> @@
    "item_code" :> <<"i", "t", "e", "m", "_", "c", "o", "d", "e">> @@
    "item code" :> <<"i", "t", "e", "m", " ", "c", "o", "d", "e">> @@
    "discription" :> <<"d", "i", "s", "c", "r", "i", "p", "t", "i", "o", "n">> @@
    "description" :> <<"d", "e", "s", "c", "r", "i", "p", "t", "i", "o", "n">> @@
    "in_qty" :> <<"i", "n", "_", "q", "t", "y">> @@
    "in qty" :> <<"i", "n", " ", "q", "t", "y">> @@
    "in_quantity" :> <<"i", "n", "_", "q", "u", "a", "n", "t", "i", "t", "y">> @@
    "out_qty" :> <<"o", "u", "t", "_", "q", "t", "y">> @@
    "out qty" :> <<"o", "u", "t", " ", "q", "t", "y">> @@
    "out_quantity" :> <<"o", "u", "t", "_", "q", "u", "a", "n", "t", "i", "t", "y">> @@
    "closing_balance" :> <<"c", "l", "o", "s", "i", "n", "g", "_", "b", "a", "l", "a", "n", "c", "e">> @@
    "closing balance" :> <<"c", "l", "o", "s", "i", "n", "g", " ", "b", "a", "l", "a", "n", "c", "e">> @@
    "customer_name" :> <<"c", "u", "s", "t", "o", "m", "e", "r", "_", "n", "a", "m", "e">> @@
    "customer name" :> <<"c", "u", "s", "t", "o", "m", "e", "r", " ", "n", "a", "m", "e">> @@
    "customer" :> <<"c", "u", "s", "t", "o", "m", "e", "r">> @@
    "brand" :> <<"b", "r", "a", "n", "d">> @@
    "invoice_number" :> <<"i", "n", "v", "o", "i", "c", "e", "_", "n", "u", "m", "b", "e", "r">> @@
    "invoice number" :> <<"i", "n", "v", "o", "i", "c", "e", " ", "n", "u", "m", "b", "e", "r">> @@
    "invoice_no" :> <<"i", "n", "v", "o", "i", "c", "e", "_", "n", "o">> @@
    "awb_number" :> <<"a", "w", "b", "_", "n", "u", "m", "b", "e", "r">> @@
    "awb number" :> <<"a", "w", "b", " ", "n", "u", "m", "b", "e", "r">> @@
    "docket_status" :> <<"d", "o", "c", "k", "e", "t", "_", "s", "t", "a", "t", "u", "s">> @@
    "docket status" :> <<"d", "o", "c", "k", "e", "t", " ", "s", "t", "a", "t", "u", "s">> @@
    "delivery_date_time" :> <<"d", "e", "l", "i", "v", "e", "r", "y", "_", "d", "a", "t", "e", "_", "t", "i", "m", "e">> @@
    "delivery date time" :> <<"d", "e", "l", "i", "v", "e", "r", "y", " ", "d", "a", "t", "e", " ", "t", "i", "m", "e">> @@
    "take time to deliver" :> <<"t", "a", "k", "e", " ", "t", "i", "m", "e", " ", "t", "o", " ", "d", "e", "l", "i", "v", "e", "r">> @@
    "amount" :> <<"a", "m", "o", "u", "n", "t">> @@
    "delivery_time_days" :> <<"d", "e", "l", "i", "v", "e", "r", "y", "_", "t", "i", "m", "e", "_", "d", "a", "y", "s">> @@
    "_invoice_date" :> <<"_", "i", "n", "v", "o", "i", "c", "e", "_", "d", "a", "t", "e">> @@
    "_day" :> <<"_", "d", "a", "y">> @@
    "dispatch_date_day" :> <<"d", "i", "s", "p", "a", "t", "c", "h", "_", "d", "a", "t", "e", "_", "d", "a", "y">> @@
    "delivery_date_day" :> <<"d", "e", "l", "i", "v", "e", "r", "y", "_", "d", "a", "t", "e", "_", "d", "a", "y">> @@
    "invoice_date_day" :> <<"i", "n", "v", "o", "i", "c", "e", "_", "d", "a", "t", "e", "_", "d", "a", "y">> @@
    "Invoice Date" :> <<"I", "n", "v", "o", "i", "c", "e", " ", "D", "a", "t", "e">> @@
    "INVOICE.DATE" :> <<"I", "N", "V", "O", "I", "C", "E", ".", "D", "A", "T", "E">> @@
    "Dispatch Date" :> <<"D", "i", "s", "p", "a", "t", "c", "h", " ", "D", "a", "t", "e">> @@
    "Delivery Date" :> <<"D", "e", "l", "i", "v", "e", "r", "y", " ", "D", "a", "t", "e">> @@
    "Goods Recd Date" :> <<"G", "o", "o", "d", "s", " ", "R", "e", "c", "d", " ", "D", "a", "t", "e">> @@
    "Taxable Value" :> <<"T", "a", "x", "a", "b", "l", "e", " ", "V", "a", "l", "u", "e">> @@
    "Purchase Value" :> <<"P", "u", "r", "c", "h", "a", "s", "e", " ", "V", "a", "l", "u", "e">> @@
    "Invoice No" :> <<"I", "n", "v", "o", "i", "c", "e", " ", "N", "o">> @@
    " Taxable Value" :> <<" ", "T", "a", "x", "a", "b", "l", "e", " ", "V", "a", "l", "u", "e">> @@
    "zzz" :> <<"z", "z", "z">> @@
    "A B" :> <<"A", " ", "B">> @@
    "a-b" :> <<"a", "-", "b">> @@
    "B." :> <<"B", ".">> @@
    "." :> <<".">> @@
    "a b" :> <<"a", " ", "b">> @@
    "b" :> <<"b">>

\* the string spelled by a sequence of characters
Intern(chars) == CHOOSE s \in DOMAIN Spelling : Spelling[s] = chars

\* the characters of str(c)
Str(c) ==
    CASE c.kind = "str" -> Spelling[c.val]
      [] c.kind = "int" -> Digits(c.val)
      [] OTHER -> <<"N", "o", "n", "e">>

\* Python truthiness of a label: `if found:`
Truthy(c) ==
    CASE c.kind = "str" -> c.val # ""
      [] c.kind = "int" -> c.val # 0
      [] OTHER -> FALSE

-----------------------------------------------------------------------------
(* str methods used by clean_column_name *)

UpperCase == <<"A", "B", "C", "D", "E", "F", "G", "H", "I", "J", "K", "L", "M",
               "N", "O", "P", "Q", "R", "S", "T", "U", "V", "W", "X", "Y", "Z">>
LowerCase == <<"a", "b", "c", "d", "e", "f", "g", "h", "i", "j", "k", "l", "m",
               "n", "o", "p", "q", "r", "s", "t", "u", "v", "w", "x", "y", "z">>

Whitespace == {" ", "\n", "\t"}

lower_char(ch) ==
    IF \E j \in DOMAIN UpperCase : UpperCase[j] = ch
    THEN LowerCase[CHOOSE j \in DOMAIN UpperCase : UpperCase[j] = ch]
    ELSE ch

lower(s) == [j \in DOMAIN s |-> lower_char(s[j])]

RECURSIVE lstrip(_)
lstrip(s) == IF s # <<>> /\ Head(s) \in Whitespace THEN lstrip(Tail(s)) ELSE s

RECURSIVE rstrip(_)
rstrip(s) ==
    IF s # <<>> /\ s[Len(s)] \in Whitespace THEN rstrip(SubSeq(s, 1, Len(s) - 1)) ELSE s

strip(s) == rstrip(lstrip(s))

\* str.replace(old, new) for a non-empty old: left to right, non-overlapping
RECURSIVE replace(_, _, _)
replace(s, old, new) ==
    IF Len(s) < Len(old) THEN s
    ELSE IF SubSeq(s, 1, Len(old)) = old
         THEN new \o replace(SubSeq(s, Len(old) + 1, Len(s)), old, new)
         ELSE <<Head(s)>> \o replace(Tail(s), old, new)

clean_column_name(c) ==
    replace(replace(replace(replace(replace(replace(replace(
        lower(strip(Str(c))),
        <<"\n">>, <<" ">>), <<"\t">>, <<" ">>), <<".">>, <<>>), <<"/">>, <<" ">>),
        <<"-">>, <<"_">>), <<" ", " ">>, <<" ">>), <<" ">>, <<"_">>)

\* clean_column_name of every string the model handles, computed once
cleaned_names == [s \in DOMAIN Spelling |-> clean_column_name(S(s))]

\* clean_column_name(c), read from cleaned_names when c is a string
cleaned(c) == IF c.kind = "str" THEN cleaned_names[c.val] ELSE clean_column_name(c)

\* s.strip() of every string the model handles, computed once
stripped == [s \in DOMAIN Spelling |-> Intern(strip(Spelling[s]))]

-----------------------------------------------------------------------------
(* safe_get_column *)

Last(set) == CHOOSE j \in set : \A m \in set : m <= j
First(set) == CHOOSE j \in set : \A m \in set : j <= m

\* {clean_column_name(c): c for c in df.columns}; a repeated key keeps the first header
cleaned_map_first_wins(columns) ==
    [key \in {cleaned(columns[j]) : j \in DOMAIN columns} |->
        columns[First({j \in DOMAIN columns : cleaned(columns[j]) = key})]]

\* {clean_column_name(c): c for c in df.columns}; a repeated key keeps the last header
cleaned_map_of(columns) ==
    [key \in {cleaned(columns[j]) : j \in DOMAIN columns} |->
        columns[Last({j \in DOMAIN columns : cleaned(columns[j]) = key})]]

\* [want] + [clean_column_name(a) for a in aliases]
candidates_of(target, aliases) ==
    <<cleaned(S(target))>> \o
    [j \in DOMAIN aliases |-> cleaned(S(aliases[j]))]

\* Python's `a in b` on strings
IsSubstring(a, b) == \E n \in 0..(Len(b) - Len(a)) : SubSeq(b, n + 1, n + Len(a)) = a

\* safe_get_column that looks up the target only and ignores the aliases
safe_get_column_target_only(columns, target, aliases) ==
    LET want == cleaned(S(target))
        cleaned_map == cleaned_map_of(columns)
    IN  IF want \in DOMAIN cleaned_map THEN cleaned_map[want] ELSE None

\* safe_get_column followed by a substring pass over candidates and headers
safe_get_column_substring(columns, target, aliases) ==
    LET candidates == candidates_of(target, aliases)
        cleaned_map == cleaned_map_of(columns)
        hits == {j \in DOMAIN candidates : candidates[j] \in DOMAIN cleaned_map}
        part(j, n) == \/ IsSubstring(candidates[j], cleaned(columns[n]))
                      \/ IsSubstring(cleaned(columns[n]), candidates[j])
        parts == {j \in DOMAIN candidates : \E n \in DOMAIN columns : part(j, n)}
    IN  IF hits # {} THEN cleaned_map[candidates[First(hits)]]
        ELSE IF parts # {}
             THEN columns[First({n \in DOMAIN columns : part(First(parts), n)})]
             ELSE None

safe_get_column(columns, target, aliases) ==
    LET candidates == candidates_of(target, aliases)
        cleaned_map == cleaned_map_of(columns)
        hits == {j \in DOMAIN candidates : candidates[j] \in DOMAIN cleaned_map}
    IN  IF hits # {} THEN cleaned_map[candidates[First(hits)]] ELSE None

-----------------------------------------------------------------------------
(* dict operations on the ordered mapping *)

Keys(m) == {m[j].k : j \in DOMAIN m}

Get(m, key) ==
    IF key \in Keys(m) THEN m[CHOOSE j \in DOMAIN m : m[j].k = key].v ELSE None

Put(m, key, value) ==
    IF key \in Keys(m)
    THEN [j \in DOMAIN m |-> IF m[j].k = key THEN [k |-> key, v |-> value] ELSE m[j]]
    ELSE Append(m, [k |-> key, v |-> value])

-----------------------------------------------------------------------------
(* the mapping construction loop *)

\* if found: mapping[canon] = found -- stored even when nothing was found
store_found_always(m, canon, value) == Put(m, canon, value)

\* if found: mapping[canon] = found
store_found(m, canon, value) == IF Truthy(value) THEN Put(m, canon, value) ELSE m

\* for canon, aliases in expected_aliases.items(): the whole loop, from mapping m
RECURSIVE build_mapping(_, _, _)
build_mapping(columns, fields, m) ==
    IF fields = <<>> THEN m
    ELSE build_mapping(columns, Tail(fields),
             store_found(m, Head(fields).canon,
                 safe_get_column(columns, Head(fields).canon, Head(fields).aliases)))

\* one iteration of `for canon, aliases in expected_aliases.items()` over the
\* fields of a resolver run
MappingLoop ==
    /\ pc = "mapping_loop"
    /\ loop_idx <= Len(catalog)
    /\ LET canon == catalog[loop_idx].canon
           aliases == catalog[loop_idx].aliases
           result == safe_get_column(cols, canon, aliases)
       IN  /\ found' = result
           /\ mapping' = store_found(mapping, canon, result)
    /\ loop_idx' = loop_idx + 1
    /\ UNCHANGED <<cols, catalog, dfcols, amount_src, dtd_src, dtd_notna, infos, pc>>

-----------------------------------------------------------------------------
(* inputs of the resolver: bounded header lists and catalogs *)

MaxCols == 2
MaxAliases == 1

\* sequences of up to n distinct elements of pool
DistinctSeqs(pool, n) ==
    UNION {{s \in [1..m -> pool] : \A a, b \in 1..m : a # b => s[a] # s[b]} : m \in 0..n}

\* sequences of up to n elements of pool
SeqsUpTo(pool, n) == UNION {[1..m -> pool] : m \in 0..n}

\* "A B", "a-b", "B.", ".", 0
HeaderPool ==
    {S("A B"), S("a-b"), S("B."), S("."), I(0)}

\* "a b", "b", "."
NamePool == {"a b", "b", "."}

Fields == [canon : NamePool, aliases : SeqsUpTo(NamePool, MaxAliases)]

\* dict literals of at most two canonical fields (keys are distinct)
Catalogs ==
    {<<>>} \cup {<<f>> : f \in Fields}
           \cup {c \in {<<f, g>> : f \in Fields, g \in Fields} : c[1].canon # c[2].canon}

Zero == [kind |-> "zero", val |-> 0]

ResolverInit ==
    /\ cols \in DistinctSeqs(HeaderPool, MaxCols)
    /\ catalog \in Catalogs
    /\ loop_idx = 1
    /\ found = None
    /\ mapping = <<>>
    /\ dfcols = {}
    /\ amount_src = Zero
    /\ dtd_src = <<>>
    /\ dtd_notna = FALSE
    /\ infos = {}
    /\ pc = "mapping_loop"

ResolverNext == MappingLoop

ResolverSpec == ResolverInit /\ [][ResolverNext]_vars

-----------------------------------------------------------------------------
(* the catalog and the sheets *)

\* expected_aliases, in the order of the dict literal
expected_aliases == <<
    [canon |-> "invoice_date",
     aliases |-> <<"invoice date", "invoice_date">>],
    [canon |-> "goods_recd_date",
     aliases |-> <<"goods recd date", "goods_recd_date", "goods_received_date">>],
    [canon |-> "dispatch_date",
     aliases |-> <<"dispatch date", "dispatch_date">>],
    [canon |-> "delivery_date",
     aliases |-> <<"delivery date", "delivery_date">>],
    [canon |-> "unit_price_dollar_inr",
     aliases |-> <<"unit price dollar/inr", "unit_price_dollar_inr", "unit_price_dollar_inr">>],
    [canon |-> "unit_price_inr",
     aliases |-> <<"unit price inr", "unit_price_inr">>],
    [canon |-> "purchase_value",
     aliases |-> <<"purchase value", "purchase_value", "purchase_value_dollar/inr">>],
    [canon |-> "taxable_value",
     aliases |-> <<"taxable value", "taxable_value">>],
    [canon |-> "item_code",
     aliases |-> <<"item code", "item_code">>],
    [canon |-> "discription",
     aliases |-> <<"description", "discription", "discription">>],
    [canon |-> "in_qty",
     aliases |-> <<"in qty", "in_qty", "in_quantity">>],
    [canon |-> "out_qty",
     aliases |-> <<"out qty", "out_qty", "out_quantity">>],
    [canon |-> "closing_balance",
     aliases |-> <<"closing balance", "closing_balance">>],
    [canon |-> "customer_name",
     aliases |-> <<"customer name", "customer_name", "customer">>],
    [canon |-> "brand",
     aliases |-> <<"brand">>],
    [canon |-> "invoice_number",
     aliases |-> <<"invoice number", "invoice_number", "invoice_no">>],
    [canon |-> "awb_number",
     aliases |-> <<"awb number", "awb_number">>],
    [canon |-> "docket_status",
     aliases |-> <<"docket status", "docket_status">>],
    [canon |-> "delivery_date_time",
     aliases |-> <<"delivery date time", "delivery_date_time", "take time to deliver">>]
>>

\* header rows of the sheets a user may upload
Sheets == {
    <<>>,
    <<S("Invoice Date")>>,
    <<S("invoice_date")>>,
    <<S("INVOICE.DATE")>>,
    <<S("Invoice Date"), S("invoice_date")>>,
    <<S("Dispatch Date"), S("Delivery Date")>>,
    <<S("Goods Recd Date"), S("Delivery Date")>>,
    <<S("Invoice No"), S("Dispatch Date"), S("Delivery Date")>>,
    <<S("Taxable Value"), S("Purchase Value")>>,
    <<S("Purchase Value")>>,
    <<S(" Taxable Value"), S("Purchase Value")>>,
    <<S("Invoice Date"), S("Invoice No"), S("Dispatch Date"), S("Delivery Date"), S("Taxable Value")>>
}

\* a text typed into a mapping input that names no column
NoSuchColumn == "zzz"

-----------------------------------------------------------------------------
(* sorted(expected_aliases.keys()) *)

\* code point order of the characters of the field names: "_" sorts before "a"
CharOrder == <<"_">> \o LowerCase

ord(ch) == CHOOSE j \in DOMAIN CharOrder : CharOrder[j] = ch

RECURSIVE str_lt(_, _)
str_lt(a, b) ==
    IF b = <<>> THEN FALSE
    ELSE IF a = <<>> THEN TRUE
    ELSE IF Head(a) # Head(b) THEN ord(Head(a)) < ord(Head(b))
    ELSE str_lt(Tail(a), Tail(b))

RECURSIVE sorted(_)
sorted(set) ==
    IF set = {} THEN <<>>
    ELSE LET least == CHOOSE a \in set : \A b \in set \ {a} : str_lt(Spelling[a], Spelling[b])
         IN  <<least>> \o sorted(set \ {least})

-----------------------------------------------------------------------------
(* the script run *)

MaxEdits == 1

\* `a or b`
Or(a, b) == IF Truthy(a) THEN a ELSE b

\* mapping.get(key, default)
GetDefault(m, key, default) == IF key \in Keys(m) THEN Get(m, key) ELSE default

\* sets of at most n keys
RECURSIVE KeySets(_, _)
KeySets(keys, n) ==
    IF n = 0 THEN {{}}
    ELSE KeySets(keys, n - 1) \cup {s \cup {key} : s \in KeySets(keys, n - 1), key \in keys}

\* what a user may type into a mapping input: nothing, a header of the sheet,
\* or a name that is no column
TypedPool == {"", NoSuchColumn} \cup {Intern(Str(cols[j])) : j \in DOMAIN cols}

Init ==
    /\ cols = <<>>
    /\ catalog = <<>>
    /\ loop_idx = 1
    /\ found = None
    /\ mapping = <<>>
    /\ dfcols = {}
    /\ amount_src = Zero
    /\ dtd_src = <<>>
    /\ dtd_notna = FALSE
    /\ infos = {}
    /\ pc = "upload"

\* upload is None: st.info and st.stop()
NoUpload ==
    /\ pc = "upload"
    /\ infos' = infos \cup {"upload"}
    /\ pc' = "done"
    /\ UNCHANGED <<cols, catalog, loop_idx, found, mapping, dfcols, amount_src,
                   dtd_src, dtd_notna>>

\* load_excel keeps the original headers; mapping = {}
LoadExcel ==
    /\ pc = "upload"
    /\ cols' \in Sheets
    /\ pc' = "build_mapping"
    /\ UNCHANGED <<catalog, loop_idx, found, mapping, dfcols, amount_src, dtd_src,
                   dtd_notna, infos>>

\* mapping = {} and the mapping construction loop over expected_aliases
BuildMapping ==
    /\ pc = "build_mapping"
    /\ mapping' = build_mapping(cols, expected_aliases, <<>>)
    /\ found' = LET last == expected_aliases[Len(expected_aliases)]
                IN  safe_get_column(cols, last.canon, last.aliases)
    /\ pc' = "user_override"
    /\ UNCHANGED <<cols, catalog, loop_idx, dfcols, amount_src, dtd_src, dtd_notna, infos>>

\* for k, v in mapping_display.items(): mapping[k] = v.strip() if v else mapping.get(k)
RECURSIVE override_loop(_, _, _)
override_loop(m, keys, mapping_display) ==
    IF keys = <<>> THEN m
    ELSE LET k == Head(keys)
             v == mapping_display[k]
         IN  override_loop(Put(m, k, IF v # "" THEN S(stripped[v]) ELSE Get(m, k)),
                           Tail(keys), mapping_display)

\* the text inputs, prefilled with mapping.get(key, ""), and the override loop
UserOverride ==
    /\ pc = "user_override"
    /\ LET keys == {expected_aliases[j].canon : j \in DOMAIN expected_aliases}
           sorted_keys == sorted(keys)
           prefilled == [key \in keys |-> Intern(Str(GetDefault(mapping, key, S(""))))]
       IN  \E edited \in KeySets(keys, MaxEdits) :
           \E typed \in [edited -> TypedPool] :
               LET mapping_display ==
                       [key \in keys |-> IF key \in edited THEN typed[key] ELSE prefilled[key]]
               IN  mapping' = override_loop(mapping, sorted_keys, mapping_display)
    /\ pc' = "apply_mapping"
    /\ UNCHANGED <<cols, catalog, loop_idx, found, dfcols, amount_src, dtd_src,
                   dtd_notna, infos>>

\* for canon, actual in mapping.items(): if actual and actual in df.columns: df[canon] = df[actual]
RECURSIVE apply_mapping(_, _)
apply_mapping(items, columns) ==
    IF items = <<>> THEN columns
    ELSE LET canon == Head(items).k
             actual == Head(items).v
         IN  apply_mapping(Tail(items),
                 IF Truthy(actual) /\ actual \in columns
                 THEN columns \cup {S(canon)} ELSE columns)

\* the apply loop with entries of missing columns dropped from the mapping
ApplyMappingPruning ==
    /\ pc = "apply_mapping"
    /\ dfcols' = apply_mapping(mapping, {cols[j] : j \in DOMAIN cols})
    /\ mapping' = SelectSeq(mapping, LAMBDA e : e.v \in {cols[j] : j \in DOMAIN cols})
    /\ pc' = "coerce"
    /\ UNCHANGED <<cols, catalog, loop_idx, found, amount_src, dtd_src, dtd_notna, infos>>

\* df = df_raw.copy() and the apply loop
ApplyMapping ==
    /\ pc = "apply_mapping"
    /\ dfcols' = apply_mapping(mapping, {cols[j] : j \in DOMAIN cols})
    /\ pc' = "coerce"
    /\ UNCHANGED <<cols, catalog, loop_idx, found, mapping, amount_src, dtd_src,
                   dtd_notna, infos>>

\* try_parse_dates and try_numeric convert the canonical columns that exist;
\* they add and remove no column
Coerce ==
    /\ pc = "coerce"
    /\ pc' = "compute_derived"
    /\ UNCHANGED <<cols, catalog, loop_idx, found, mapping, dfcols, amount_src,
                   dtd_src, dtd_notna, infos>>

\* the column df["amount"] is read from, Zero for the constant 0.0
amount_source(m, columns) ==
    LET amt_col == Or(Get(m, "taxable_value"), Get(m, "purchase_value"))
    IN  IF Truthy(amt_col) /\ amt_col \in columns THEN amt_col ELSE Zero

\* the columns delivery_time_days is the difference of, <<>> for NaN
delivery_time_source(m, columns) ==
    LET dcol == Get(m, "delivery_date")
        discol == Get(m, "dispatch_date")
        goodscol == Get(m, "goods_recd_date")
    IN  IF dcol \in columns /\ discol \in columns THEN <<dcol, discol>>
        ELSE IF dcol \in columns /\ goodscol \in columns THEN <<dcol, goodscol>>
        ELSE <<>>

\* the columns compute_derived adds to df
derived_columns(m, columns) ==
    {S("amount"), S("delivery_time_days"), S("_invoice_date")}
    \cup (IF Get(m, "closing_balance") \in columns THEN {S("closing_balance")} ELSE {})
    \cup {S(Intern(Spelling[orig] \o Spelling["_day"])) :
            orig \in {o \in {"dispatch_date", "delivery_date", "invoice_date"} :
                        Get(m, o) \in columns}}

ComputeDerived ==
    /\ pc = "compute_derived"
    /\ amount_src' = amount_source(mapping, dfcols)
    /\ dtd_src' = delivery_time_source(mapping, dfcols)
    /\ dtd_notna' \in (IF dtd_src' # <<>> THEN BOOLEAN ELSE {FALSE})
    /\ dfcols' = dfcols \cup derived_columns(mapping, dfcols)
    /\ pc' = "filters"
    /\ UNCHANGED <<cols, catalog, loop_idx, found, mapping, infos>>

\* sidebar filters; with no invoice date the fallback reads df[alt] for every
\* alt whose mapped column exists
Filters ==
    /\ pc = "filters"
    /\ \E invoice_nat \in (IF Get(mapping, "invoice_date") \in dfcols THEN BOOLEAN ELSE {TRUE}) :
           IF /\ invoice_nat
              /\ \E alt \in {"goods_recd_date", "dispatch_date", "delivery_date"} :
                     Get(mapping, alt) \in dfcols /\ S(alt) \notin dfcols
           THEN pc' = "crashed"
           ELSE pc' = "kpis"
    /\ UNCHANGED <<cols, catalog, loop_idx, found, mapping, dfcols, amount_src,
                   dtd_src, dtd_notna, infos>>

\* Key Metrics: every read is guarded by `in fdf.columns`
KPIs ==
    /\ pc = "kpis"
    /\ pc' = "time_series"
    /\ UNCHANGED <<cols, catalog, loop_idx, found, mapping, dfcols, amount_src,
                   dtd_src, dtd_notna, infos>>

\* Amount over Time: needs a non-null _invoice_date
TimeSeries ==
    /\ pc = "time_series"
    /\ \E has_dates \in (IF Get(mapping, "invoice_date") \in dfcols THEN BOOLEAN ELSE {FALSE}) :
           infos' = IF has_dates THEN infos ELSE infos \cup {"time_series"}
    /\ pc' = "top_customers"
    /\ UNCHANGED <<cols, catalog, loop_idx, found, mapping, dfcols, amount_src,
                   dtd_src, dtd_notna>>

TopCustomers ==
    /\ pc = "top_customers"
    /\ infos' = IF Get(mapping, "customer_name") \in dfcols
                THEN infos ELSE infos \cup {"top_customers"}
    /\ pc' = "delivery_time"
    /\ UNCHANGED <<cols, catalog, loop_idx, found, mapping, dfcols, amount_src,
                   dtd_src, dtd_notna>>

\* Delivery Time Distribution: the download selects
\* ddf[["invoice_number","dispatch_date","delivery_date","delivery_time_days"]]
DeliveryTime ==
    /\ pc = "delivery_time"
    /\ IF dtd_notna
       THEN /\ pc' = IF {S("invoice_number"), S("dispatch_date"), S("delivery_date"),
                         S("delivery_time_days")} \subseteq dfcols
                     THEN "top_items" ELSE "crashed"
            /\ infos' = infos
       ELSE /\ pc' = "top_items"
            /\ infos' = infos \cup {"delivery_time"}
    /\ UNCHANGED <<cols, catalog, loop_idx, found, mapping, dfcols, amount_src,
                   dtd_src, dtd_notna>>

TopItems ==
    /\ pc = "top_items"
    /\ infos' = IF Get(mapping, "item_code") \in dfcols
                THEN infos ELSE infos \cup {"top_items"}
    /\ pc' = "brand"
    /\ UNCHANGED <<cols, catalog, loop_idx, found, mapping, dfcols, amount_src,
                   dtd_src, dtd_notna>>

Brand ==
    /\ pc = "brand"
    /\ infos' = IF Get(mapping, "brand") \in dfcols
                THEN infos ELSE infos \cup {"brand"}
    /\ pc' = "pivot"
    /\ UNCHANGED <<cols, catalog, loop_idx, found, mapping, dfcols, amount_src,
                   dtd_src, dtd_notna>>

\* Dispatch Day vs Delivery Day: pivot_table(values=...) raises KeyError for a
\* label that is no column; values=None counts every remaining column
Pivot ==
    /\ pc = "pivot"
    /\ IF S("dispatch_date_day") \in dfcols /\ S("delivery_date_day") \in dfcols
       THEN LET values == Or(Get(mapping, "invoice_number"),
                             GetDefault(mapping, "invoice_number", S("")))
            IN  /\ pc' = IF values.kind = "str" /\ values \notin dfcols
                         THEN "crashed" ELSE "preview"
                /\ infos' = infos
       ELSE /\ pc' = "preview"
            /\ infos' = infos \cup {"pivot"}
    /\ UNCHANGED <<cols, catalog, loop_idx, found, mapping, dfcols, amount_src,
                   dtd_src, dtd_notna>>

\* Filtered data preview, Notes, st.success
Preview ==
    /\ pc = "preview"
    /\ pc' = "done"
    /\ UNCHANGED <<cols, catalog, loop_idx, found, mapping, dfcols, amount_src,
                   dtd_src, dtd_notna, infos>>

\* Streamlit runs the script again from the top on the next interaction
Rerun ==
    /\ pc \in {"done", "crashed"}
    /\ cols' = <<>>
    /\ loop_idx' = 1
    /\ found' = None
    /\ mapping' = <<>>
    /\ dfcols' = {}
    /\ amount_src' = Zero
    /\ dtd_src' = <<>>
    /\ dtd_notna' = FALSE
    /\ infos' = {}
    /\ pc' = "upload"
    /\ UNCHANGED catalog

Next ==
    \/ NoUpload
    \/ LoadExcel
    \/ BuildMapping
    \/ UserOverride
    \/ ApplyMapping
    \/ Coerce
    \/ ComputeDerived
    \/ Filters
    \/ KPIs
    \/ TimeSeries
    \/ TopCustomers
    \/ DeliveryTime
    \/ TopItems
    \/ Brand
    \/ Pivot
    \/ Preview
    \/ Rerun

Spec == Init /\ [][Next]_vars

-----------------------------------------------------------------------------
(* vocabulary of the resolver claims *)

\* a safe_get_column call has returned: its field is the one before loop_idx
Called == pc = "mapping_loop" /\ loop_idx > 1

CurField == catalog[loop_idx - 1]

CurCands == candidates_of(CurField.canon, CurField.aliases)

Key(h) == cleaned(h)

Headers == {cols[j] : j \in DOMAIN cols}

ExactHit(j, n) == CurCands[j] = Key(cols[n])

NoExactHit == \A j \in DOMAIN CurCands, n \in DOMAIN cols : ~ExactHit(j, n)

PartialHit(j, n) ==
    \/ IsSubstring(CurCands[j], Key(cols[n]))
    \/ IsSubstring(Key(cols[n]), CurCands[j])

\* a substring match between non-empty keys (the specification rules that an
\* empty normalized string matches nothing)
NonEmptyPartialHit(j, n) ==
    PartialHit(j, n) /\ CurCands[j] # <<>> /\ Key(cols[n]) # <<>>

\* the header the specification's substring pass would return
SubstringPassResult ==
    LET js == {j \in DOMAIN CurCands : \E n \in DOMAIN cols : NonEmptyPartialHit(j, n)}
    IN  IF js = {} THEN None
        ELSE cols[First({n \in DOMAIN cols : NonEmptyPartialHit(First(js), n)})]

FieldOf(canon) == catalog[CHOOSE j \in DOMAIN catalog : catalog[j].canon = canon]

CandKeys(f) ==
    LET cs == candidates_of(f.canon, f.aliases) IN {cs[j] : j \in DOMAIN cs}

-----------------------------------------------------------------------------
\* C1 (as stated): whenever a candidate normalizes like header h, safe_get_column
\* returns h itself, also when several headers share a key or an earlier
\* candidate matches another header.
C1_ReturnsEveryMatchedHeader ==
    Called => \A n \in DOMAIN cols :
        (\E j \in DOMAIN CurCands : ExactHit(j, n)) => found = cols[n]

\* C1 (amended): whenever a candidate normalizes like some header h,
\* safe_get_column returns a header of the table whose normalized key equals a
\* candidate's, and it returns h itself when h is the only header whose key
\* equals a candidate's.
C1_ReturnsAMatchedHeader ==
    Called => \A n \in DOMAIN cols :
        (\E j \in DOMAIN CurCands : ExactHit(j, n)) =>
            /\ found \in Headers
            /\ \E j \in DOMAIN CurCands : CurCands[j] = Key(found)
            /\ (\A n2 \in DOMAIN cols \ {n} : \A j \in DOMAIN CurCands : ~ExactHit(j, n2))
                   => found = cols[n]

C1_Witness ==
    /\ Called
    /\ Len(cols) = 2
    /\ \E j \in DOMAIN CurCands : j > 1 /\ ExactHit(j, 1) /\ ~ExactHit(1, 1)
    /\ \A j \in DOMAIN CurCands : ~ExactHit(j, 2)
    /\ Key(cols[1]) # <<>>
    /\ found = cols[1]

\* C2 (as stated): with no exact match, safe_get_column returns the first header
\* (candidates in order, headers in table order) that contains or is contained
\* in a candidate, and None only if there is no such pair.
C2_SubstringPass == (Called /\ NoExactHit) => found = SubstringPassResult

\* C2 (amended): with no exact match safe_get_column returns None; there is no
\* substring pass, so a header that contains or is contained in a candidate is
\* not returned.
C2_NoSubstringPass == (Called /\ NoExactHit) => found = None

C2_Witness ==
    /\ Called
    /\ NoExactHit
    /\ \E j \in DOMAIN CurCands, n \in DOMAIN cols : NonEmptyPartialHit(j, n)
    /\ found = None

\* C4: if no candidate matches any header exactly or as a substring (either
\* way), safe_get_column returns None and the mapping loop leaves the field
\* absent from the mapping.
C4_NotFoundIsAbsent ==
    (Called /\ \A j \in DOMAIN CurCands, n \in DOMAIN cols :
                   ~ExactHit(j, n) /\ ~PartialHit(j, n))
        => found = None /\ CurField.canon \notin Keys(mapping)

C4_Witness ==
    /\ Called
    /\ I(0) \in Headers
    /\ \A j \in DOMAIN CurCands, n \in DOMAIN cols : ~ExactHit(j, n) /\ ~PartialHit(j, n)
    /\ found = None
    /\ CurField.canon \notin Keys(mapping)

\* C6: the first candidate (canonical name, then aliases in order) that has an
\* exact match decides, whatever the headers' order; among headers with that
\* key the last one in table order is returned.
C6_FirstCandidateLastHeader ==
    Called => \A j \in DOMAIN CurCands, n \in DOMAIN cols :
        ( /\ ExactHit(j, n)
          /\ \A j2 \in 1..(j - 1), n2 \in DOMAIN cols : ~ExactHit(j2, n2)
          /\ \A n2 \in (n + 1)..Len(cols) : ~ExactHit(j, n2) )
        => found = cols[n]

C6_Witness ==
    /\ Called
    /\ Len(cols) = 2
    /\ Key(cols[1]) = Key(cols[2])
    /\ Len(CurCands) = 2
    /\ ~ExactHit(1, 1)
    /\ ExactHit(2, 1)
    /\ found = cols[2]

\* C7 (as stated): in the mapping of one pass no raw header is assigned to more
\* than one canonical field, for every catalog.
C7_Injective ==
    \A a, b \in DOMAIN mapping : a # b => mapping[a].k # mapping[b].k /\ mapping[a].v # mapping[b].v

\* C7 (amended): each canonical field has at most one raw header, and a raw
\* header is assigned to two canonical fields only when both fields have a
\* candidate with that header's normalized key; a catalog whose fields share no
\* normalized candidate key gets an injective mapping.
C7_SharedOnlyBySharedKey ==
    \A a, b \in DOMAIN mapping : a # b =>
        /\ mapping[a].k # mapping[b].k
        /\ mapping[a].v = mapping[b].v =>
               /\ Key(mapping[a].v) \in CandKeys(FieldOf(mapping[a].k))
               /\ Key(mapping[a].v) \in CandKeys(FieldOf(mapping[b].k))

C7_Witness ==
    /\ Len(mapping) = 2
    /\ mapping[1].v # mapping[2].v
    /\ CandKeys(catalog[1]) \cap CandKeys(catalog[2]) = {}
    /\ Len(catalog[1].aliases) = 1
    /\ Key(mapping[1].v) # <<>>
    /\ Key(mapping[2].v) # <<>>

\* C9: a header or a candidate whose normalized key is empty is never reported
\* as a match by safe_get_column.
C9_EmptyNeverMatches == (Called /\ found \in Headers) => Key(found) # <<>>

-----------------------------------------------------------------------------
(* vocabulary of the pipeline claims *)

InvoiceDateAlias == "invoice date"

InvoiceDateHeaders == {S("Invoice Date"), S("invoice_date"), S("INVOICE.DATE")}

\* compute_derived has run
Derived ==
    pc \in {"filters", "kpis", "time_series", "top_customers", "delivery_time",
            "top_items", "brand", "pivot", "preview", "done"}

\* the columns of df when compute_derived is called
ColumnsAtDerive == apply_mapping(mapping, Headers)

MappedToExisting(key) ==
    Truthy(Get(mapping, key)) /\ Get(mapping, key) \in ColumnsAtDerive

\* C3: a sheet whose only header is "Invoice Date", "invoice_date" or
\* "INVOICE.DATE" has that header normalized like the alias "invoice date" and
\* resolved for invoice_date.
C3_InvoiceDateVariantsResolve ==
    (pc = "user_override" /\ Len(cols) = 1 /\ cols[1] \in InvoiceDateHeaders)
    => Key(cols[1]) = Key(S(InvoiceDateAlias)) /\ Get(mapping, "invoice_date") = cols[1]

C8_ImmutableOnceBuilt ==
    [][ (pc \notin {"upload", "build_mapping"} /\ pc' # "upload")
        => mapping' = mapping ]_vars

\* C8 (amended): once the user-override step has run, no later step of the run
\* (apply-mapping, coercion, compute_derived, filtering, rendering) changes the
\* mapping, until the script runs again; the user-override step itself changes
\* it: it adds every catalog key that was absent (with value None) and
\* replaces the header of a field whose input was edited.
C8_ImmutableAfterOverride ==
    [][ (pc \notin {"upload", "build_mapping", "user_override"} /\ pc' # "upload")
        => mapping' = mapping ]_vars

C8_Witness ==
    /\ pc = "done"
    /\ cols # <<>>
    /\ Len(mapping) = Len(expected_aliases)
    /\ \E j \in DOMAIN mapping : mapping[j].v = S(NoSuchColumn)
    /\ \E j \in DOMAIN mapping : mapping[j].v \in Headers
    /\ \E j \in DOMAIN mapping : mapping[j].v = None

\* C10: amount comes from the taxable_value column when that field is mapped to
\* an existing column, otherwise from the purchase_value column when that field
\* is mapped to an existing column, and is 0 only when neither is.
C10_AmountPreference ==
    Derived =>
        amount_src = IF MappedToExisting("taxable_value") THEN Get(mapping, "taxable_value")
                     ELSE IF MappedToExisting("purchase_value")
                          THEN Get(mapping, "purchase_value")
                          ELSE Zero

====
